---------------------------- MODULE Spec2Model ----------------------------
(***************************************************************************)
(* Model of t.py: lichess puzzles confronted with the syzygy tablebase.    *)
(*                                                                         *)
(* Abstractions.                                                           *)
(*  - A chess.Board is reduced to what the program reads of it: the number *)
(*    of occupied squares.  A uci move token is either a quiet move or a   *)
(*    capture; pushing a capture removes one piece.                        *)
(*  - A FEN is the number of pieces of the position it encodes.            *)
(*  - Optional[int] is a sequence: <<>> is None, <<n>> is the integer n.   *)
(*  - A text is the sequence of its words and blanks: a puzzle id or an    *)
(*    error name is one word, " " and "\n" are blanks.                      *)
(*  - The file object opened at t.py:171 is block buffered: a written line *)
(*    reaches the file when the buffer fills or when the file is closed;   *)
(*    lines reach the file whole.  A killed process never empties it.      *)
(*  - Six specifications: Spec is check() run again and again over one     *)
(*    puzzle.csv; SpecWalk is check_puzzle on any one puzzle; SpecClassify *)
(*    is req on any one answer of the oracle; SpecFilter is the filter on  *)
(*    any two rows of the database; SpecPrune is remove_puzzles on any     *)
(*    ledger; SpecCommands is check, exp_check_mate, clean and export run  *)
(*    in any order over any one candidate.                                 *)
(***************************************************************************)
EXTENDS Integers, Sequences, FiniteSets, TLC

VARIABLES
    db,                      \* rows of PUZZLE_PATH (puzzle.csv), in file order
    ledger,                  \* lines of PUZZLE_CHECKED_PATH on disk
    buf,                     \* lines written to `output` and not yet on disk
    pc,                      \* where the program is
    status,                  \* how the last run of check() ended
    mate,                    \* the `mate` argument of the current check()
    already_checked_puzzles, \* t.py:283, as computed when the run started
    unchecked_puzzles,       \* the part of the list of t.py:169 still to do
    completed,               \* ids whose check_puzzle returned in this run
    calls,                   \* oracle calls made since the run started
    slept,                   \* a time.sleep(0.55) ended since the last call
    puzzle_id, puzzle,       \* the loop variables of t.py:172
    i, b, res,               \* the locals of check_puzzle
    wrong_seen, multiple_seen, \* history of the verified positions
    queried,                 \* history of the lookups: (i, board) of t.py:185
    rep, expected_move, out, \* one classification, taken alone
    raw,                     \* rows of DB_PATH, the database the filter reads
    l_puzzle_id,             \* the argument of the current remove_puzzles
    file_input,              \* the lines remove_puzzles has still to read
    temp_file,               \* lines of temporary_file.txt
    incorrect_puzzle_ids     \* lines of incorrect_puzzle_ids.txt

driver_vars == <<db, ledger, buf, pc, status, mate, already_checked_puzzles,
                 unchecked_puzzles, completed, calls, slept, puzzle_id>>
walk_vars == <<puzzle, i, b, res, wrong_seen, multiple_seen, queried>>
classify_vars == <<rep, expected_move, out>>
file_vars == <<raw, l_puzzle_id, file_input, temp_file, incorrect_puzzle_ids>>
vars == <<driver_vars, walk_vars, classify_vars, file_vars>>

\* no database read, no rewrite of the ledger under way, nothing exported
NoFiles ==
    /\ raw = <<>>
    /\ l_puzzle_id = {}
    /\ file_input = <<>>
    /\ temp_file = <<>>
    /\ incorrect_puzzle_ids = <<>>

----------------------------------------------------------------------------
(* Bounds of the model *)

\* mate puzzles are mateIn1 .. mateIn<MaxMateN>
MaxMateN == 2
\* a puzzle has at most this many moves
MaxMoves == 4
\* the block buffer of `output` holds fewer lines than this
BufLines == 2

\* FileHandler.has_puzzle_fewer_8p / check_puzzle: the 7-piece threshold
TB_PIECES == 7

----------------------------------------------------------------------------
(* Values *)

None == <<>>
Some(n) == <<n>>

Wrong == "Wrong"
Multiple == "Multiple"
Error == {Wrong, Multiple}

Categories == {"win", "draw", "loss", "cursed-win", "blessed-loss"}

\* the two kinds of move token: one that captures and one that does not
QuietMove == "a5a6"
CaptureMove == "f3c6"
Uci == {QuietMove, CaptureMove}

RECURSIVE SetToSeqs(_)
\* every order in which the elements of a finite set can be iterated
SetToSeqs(S) ==
    IF S = {} THEN {<<>>}
    ELSE UNION {{<<x>> \o t : t \in SetToSeqs(S \ {x})} : x \in S}

----------------------------------------------------------------------------
(* The oracle's answers *)

\* distances to mate of a position where the side to move mates: odd plies
RootDtms == {None} \cup {Some(2 * k - 1) : k \in 1..MaxMateN}
\* distances of the replies, from the opponent's point of view: <= 0, even
ReplyDtms == {None} \cup {Some(0 - 2 * k) : k \in 0..(MaxMateN - 1)}

Replies(D, F) == [uci : Uci, category : Categories, dtm : D, checkmate : F]

\* the legal moves of a position: each uci at most once, in any order
MoveLists(R) ==
    {<<>>} \cup {<<r>> : r \in R}
           \cup {<<r[1], r[2]>> : r \in {x \in R \X R : x[1].uci # x[2].uci}}

Responses(RD, D, F) ==
    [category : Categories, dtm : RD, moves : MoveLists(Replies(D, F))]

\* every answer, for one classification taken alone
AllResponses == Responses(RootDtms, ReplyDtms, BOOLEAN)

----------------------------------------------------------------------------
(* Functions *)

is_draw(api_rep) == api_rep.category \in {"cursed-win", "draw", "blessed-loss"}

RECURSIVE check_winning_moves(_, _, _)
\* the for loop of check_winning over moves, starting from acc
check_winning_moves(moves, expected, acc) ==
    IF moves = <<>> THEN acc
    ELSE LET move == Head(moves)
             acc2 == IF move.uci = expected /\ move.category # "loss"
                     THEN acc \cup {Wrong}
                     ELSE IF move.category = "loss" /\ move.uci # expected
                     THEN acc \cup {Multiple}
                     ELSE acc
         IN check_winning_moves(Tail(moves), expected, acc2)
\* check_winning without the test of the root category
check_winning_no_root(expected, r) == check_winning_moves(r.moves, expected, {})

\* check_winning where every losing reply counts as another solution
check_winning_any_loss(expected, r) ==
    check_winning_moves(r.moves, expected,
                        IF r.category # "win" THEN {Wrong} ELSE {})
    \cup (IF \E k \in DOMAIN r.moves : r.moves[k].category = "loss"
          THEN {Multiple} ELSE {})

check_winning(expected, r) ==
    check_winning_moves(r.moves, expected,
                        IF r.category # "win" THEN {Wrong} ELSE {})

RECURSIVE check_drawing_moves(_, _, _)
check_drawing_moves(moves, expected, acc) ==
    IF moves = <<>> THEN acc
    ELSE LET move == Head(moves)
             acc2 == IF move.uci = expected /\ ~is_draw(move)
                     THEN acc \cup {Wrong}
                     ELSE IF is_draw(move) /\ move.uci # expected
                     THEN acc \cup {Multiple}
                     ELSE acc
         IN check_drawing_moves(Tail(moves), expected, acc2)

\* check_drawing taking only a plain draw for a draw
check_drawing_plain_draw(expected, r) ==
    LET plain(x) == [x EXCEPT !.category =
                        IF x.category = "draw" THEN "draw" ELSE "win"]
    IN check_drawing_moves([k \in DOMAIN r.moves |-> plain(r.moves[k])],
                           expected,
                           IF r.category # "draw" THEN {Wrong} ELSE {})

check_drawing(expected, r) ==
    check_drawing_moves(r.moves, expected,
                        IF ~is_draw(r) THEN {Wrong} ELSE {})
RECURSIVE check_mate_moves_same_sign(_, _, _, _)
\* the loop of check_mate comparing the reply's distance without negating it
check_mate_moves_same_sign(moves, expected, m_in, acc) ==
    IF moves = <<>> THEN acc
    ELSE LET move == Head(moves)
             acc2 == IF move.checkmate THEN acc
                     ELSE IF move.uci = expected
                     THEN (IF move.category # "loss"
                           THEN acc \cup {Wrong} ELSE acc)
                     ELSE IF move.dtm # None
                     THEN (IF move.category = "loss"
                              /\ move.dtm[1] = m_in - 1
                           THEN acc \cup {Multiple} ELSE acc)
                     ELSE acc
         IN check_mate_moves_same_sign(Tail(moves), expected, m_in, acc2)

RECURSIVE check_mate_moves_expected_dtm(_, _, _, _)
\* the loop of check_mate holding the expected move to its mate distance too
check_mate_moves_expected_dtm(moves, expected, m_in, acc) ==
    IF moves = <<>> THEN acc
    ELSE LET move == Head(moves)
             acc2 == IF move.checkmate THEN acc
                     ELSE IF move.uci = expected
                     THEN (IF move.category # "loss"
                              \/ (move.dtm # None /\ 0 - move.dtm[1] # m_in - 1)
                           THEN acc \cup {Wrong} ELSE acc)
                     ELSE IF move.dtm # None
                     THEN (IF move.category = "loss"
                              /\ 0 - move.dtm[1] = m_in - 1
                           THEN acc \cup {Multiple} ELSE acc)
                     ELSE acc
         IN check_mate_moves_expected_dtm(Tail(moves), expected, m_in, acc2)

RECURSIVE check_mate_moves(_, _, _, _)
check_mate_moves(moves, expected, m_in, acc) ==
    IF moves = <<>> THEN acc
    ELSE LET move == Head(moves)
             acc2 == IF move.checkmate THEN acc
                     ELSE IF move.uci = expected
                     THEN (IF move.category # "loss"
                           THEN acc \cup {Wrong} ELSE acc)
                     ELSE IF move.dtm # None
                     THEN (IF move.category = "loss"
                              /\ 0 - move.dtm[1] = m_in - 1
                           THEN acc \cup {Multiple} ELSE acc)
                     ELSE acc
         IN check_mate_moves(Tail(moves), expected, m_in, acc2)
\* check_mate comparing the mate distance even when the oracle gives none
check_mate_dtm_required(expected, r, m_in) ==
    LET r1 == IF r.category # "win" THEN {Wrong} ELSE {}
        r2 == IF r.dtm # Some(m_in) THEN r1 \cup {Wrong} ELSE r1
    IN check_mate_moves(r.moves, expected, m_in, r2)

check_mate(expected, r, m_in) ==
    LET r1 == IF r.category # "win" THEN {Wrong} ELSE {}
        r2 == IF r.dtm # None /\ r.dtm[1] # m_in THEN r1 \cup {Wrong} ELSE r1
    IN check_mate_moves(r.moves, expected, m_in, r2)

\* req testing expected_winning before mate
req_equality_first(expected, p, move_number, r) ==
    IF ~p.expected_winning THEN check_drawing(expected, r)
    ELSE IF p.mate # None THEN check_mate(expected, r, p.mate[1] - move_number)
    ELSE check_winning(expected, r)

\* req, after the http answer r has arrived
req(expected, p, move_number, r) ==
    IF p.mate # None THEN check_mate(expected, r, p.mate[1] - move_number)
    ELSE IF p.expected_winning THEN check_winning(expected, r)
    ELSE check_drawing(expected, r)

----------------------------------------------------------------------------
(* The board *)

\* Board(fen=...)
Board(fen) == [occupied |-> fen]

nb_piece(board) == board.occupied

\* Board.push_uci: a capture takes one piece off the board
push_uci(board, move) ==
    [occupied |-> board.occupied - (IF move = CaptureMove THEN 1 ELSE 0)]

----------------------------------------------------------------------------
(* Puzzles *)

\* placeholder of the loop variable while no puzzle is being checked
NoPuzzle == [fen |-> 0, moves |-> <<>>, expected_winning |-> TRUE, mate |-> None]

\* the move lists of at most n moves
MovesUpTo(n) == UNION {[1..k -> Uci] : k \in 0..n}

----------------------------------------------------------------------------
(* What the verified positions showed, for the goal of the puzzle *)

\* a reply of r playing m / playing another move than m
ReplyOf(r, m) == {r.moves[k] : k \in {j \in DOMAIN r.moves : r.moves[j].uci = m}}
ReplyNotOf(r, m) == {r.moves[k] : k \in {j \in DOMAIN r.moves : r.moves[j].uci # m}}

WinShowsWrong(r, m) ==
    r.category # "win" \/ \E x \in ReplyOf(r, m) : x.category # "loss"
WinShowsMultiple(r, m) == \E x \in ReplyNotOf(r, m) : x.category = "loss"

DrawCategories == {"draw", "cursed-win", "blessed-loss"}
DrawShowsWrong(r, m) ==
    r.category \notin DrawCategories
    \/ \E x \in ReplyOf(r, m) : x.category \notin DrawCategories
DrawShowsMultiple(r, m) ==
    \E x \in ReplyNotOf(r, m) : x.category \in DrawCategories

MateShowsWrong(r, m, remainingPlies) ==
    \/ r.category # "win"
    \/ r.dtm # None /\ r.dtm # Some(remainingPlies)
    \/ \E x \in ReplyOf(r, m) : ~x.checkmate /\ x.category # "loss"
MateShowsMultiple(r, m, remainingPlies) ==
    \E x \in ReplyNotOf(r, m) :
        /\ ~x.checkmate
        /\ x.dtm # None
        /\ x.category = "loss"
        /\ x.dtm = Some(0 - (remainingPlies - 1))

ShowsWrong(p, n, r) ==
    IF p.mate # None THEN MateShowsWrong(r, p.moves[n + 1], p.mate[1] - n)
    ELSE IF p.expected_winning THEN WinShowsWrong(r, p.moves[n + 1])
    ELSE DrawShowsWrong(r, p.moves[n + 1])
ShowsMultiple(p, n, r) ==
    IF p.mate # None THEN MateShowsMultiple(r, p.moves[n + 1], p.mate[1] - n)
    ELSE IF p.expected_winning THEN WinShowsMultiple(r, p.moves[n + 1])
    ELSE DrawShowsMultiple(r, p.moves[n + 1])

----------------------------------------------------------------------------
(* check_puzzle, one iteration of its loop at a time *)

\* the condition of t.py:184 without the test of the index
is_verification_point_any_index(n, board) == nb_piece(board) <= TB_PIECES

\* the condition of t.py:184 asking for exactly the threshold
is_verification_point_at_threshold(n, board) ==
    n % 2 = 1 /\ nb_piece(board) = TB_PIECES

\* the condition of t.py:184 taking the even indices
is_verification_point_even_index(n, board) ==
    n % 2 = 0 /\ nb_piece(board) <= TB_PIECES

\* the condition of t.py:184
is_verification_point(n, board) == n % 2 = 1 /\ nb_piece(board) <= TB_PIECES

\* VerifyMove keeping only the classification of the latest position
VerifyMoveOverwrite(R) ==
    /\ pc = "check_puzzle"
    /\ i < Len(puzzle.moves)
    /\ is_verification_point(i, b)
    /\ \E r \in R :
        /\ res' = req(puzzle.moves[i + 1], puzzle, i, r)
        /\ wrong_seen' = (wrong_seen \/ ShowsWrong(puzzle, i, r))
        /\ multiple_seen' = (multiple_seen \/ ShowsMultiple(puzzle, i, r))
    /\ queried' = queried \cup {<<i, b>>}
    /\ calls' = calls + 1
    /\ slept' = FALSE
    /\ b' = push_uci(b, puzzle.moves[i + 1])
    /\ i' = i + 1
    /\ UNCHANGED <<db, ledger, buf, pc, status, mate, already_checked_puzzles,
                   unchecked_puzzles, completed, puzzle_id, puzzle>>
    /\ UNCHANGED classify_vars
    /\ UNCHANGED file_vars

\* an iteration that queries the oracle, which answers r \in R
VerifyMove(R) ==
    /\ pc = "check_puzzle"
    /\ i < Len(puzzle.moves)
    /\ is_verification_point(i, b)
    /\ \E r \in R :
        /\ res' = res \cup req(puzzle.moves[i + 1], puzzle, i, r)
        /\ wrong_seen' = (wrong_seen \/ ShowsWrong(puzzle, i, r))
        /\ multiple_seen' = (multiple_seen \/ ShowsMultiple(puzzle, i, r))
    /\ queried' = queried \cup {<<i, b>>}
    /\ calls' = calls + 1
    /\ slept' = FALSE
    /\ b' = push_uci(b, puzzle.moves[i + 1])
    /\ i' = i + 1
    /\ UNCHANGED <<db, ledger, buf, pc, status, mate, already_checked_puzzles,
                   unchecked_puzzles, completed, puzzle_id, puzzle>>
    /\ UNCHANGED classify_vars
    /\ UNCHANGED file_vars

\* an iteration that only plays the move
SkipMove ==
    /\ pc = "check_puzzle"
    /\ i < Len(puzzle.moves)
    /\ ~is_verification_point(i, b)
    /\ b' = push_uci(b, puzzle.moves[i + 1])
    /\ i' = i + 1
    /\ UNCHANGED <<res, wrong_seen, multiple_seen, queried, puzzle>>
    /\ UNCHANGED driver_vars
    /\ UNCHANGED classify_vars
    /\ UNCHANGED file_vars

\* check_puzzle called alone, as test.py calls it: the lookup raises
Raise ==
    /\ pc = "check_puzzle"
    /\ i < Len(puzzle.moves)
    /\ is_verification_point(i, b)
    /\ pc' = "raised"
    /\ calls' = calls + 1
    /\ slept' = FALSE
    /\ UNCHANGED <<db, ledger, buf, status, mate, already_checked_puzzles,
                   unchecked_puzzles, completed, puzzle_id>>
    /\ queried' = queried \cup {<<i, b>>}
    /\ UNCHANGED <<puzzle, i, b, res, wrong_seen, multiple_seen>>
    /\ UNCHANGED classify_vars
    /\ UNCHANGED file_vars

\* check_puzzle called alone: t.py:187
Return ==
    /\ pc = "check_puzzle"
    /\ i = Len(puzzle.moves)
    /\ pc' = "returned"
    /\ UNCHANGED <<db, ledger, buf, status, mate, already_checked_puzzles,
                   unchecked_puzzles, completed, calls, slept, puzzle_id>>
    /\ UNCHANGED walk_vars
    /\ UNCHANGED classify_vars
    /\ UNCHANGED file_vars

\* the most pieces a start position has above the threshold
MaxExtra == 2

WalkPuzzles ==
    [fen : TB_PIECES..(TB_PIECES + MaxExtra),
     moves : MovesUpTo(MaxMoves),
     expected_winning : BOOLEAN,
     mate : {None} \cup {Some(2 * k) : k \in 1..MaxMateN}]

\* the answers the oracle gives while a puzzle is walked
WalkResponses == Responses({None, Some(1)}, {None, Some(0)}, {FALSE})

NoRep == [category |-> "win", dtm |-> None, moves |-> <<>>]

InitWalk ==
    /\ db = <<>>
    /\ ledger = <<>>
    /\ buf = <<>>
    /\ pc = "check_puzzle"
    /\ status = "none"
    /\ mate = FALSE
    /\ already_checked_puzzles = {}
    /\ unchecked_puzzles = <<>>
    /\ completed = {}
    /\ calls = 0
    /\ slept = TRUE
    /\ puzzle_id = ""
    /\ puzzle \in WalkPuzzles
    /\ i = 0
    /\ b = Board(puzzle.fen)
    /\ res = {}
    /\ wrong_seen = FALSE
    /\ multiple_seen = FALSE
    /\ queried = {}
    /\ rep = NoRep
    /\ expected_move = QuietMove
    /\ out = {}
    /\ NoFiles

NextWalk == VerifyMove(WalkResponses) \/ SkipMove \/ Raise \/ Return

SpecWalk == InitWalk /\ [][NextWalk]_vars

----------------------------------------------------------------------------
(* req called alone on one answer of the oracle *)

\* goals and move indices: a mate in N has 2N plies and i is one of them
ClassifyCalls ==
    {c \in [expected_winning : BOOLEAN,
            mate : {None} \cup {Some(2 * k) : k \in 1..MaxMateN},
            i : {n \in 1..(MaxMoves - 1) : n % 2 = 1}] :
        /\ c.mate # None => c.i < c.mate[1]
        /\ c.mate = None => c.i = 1}

InitClassify ==
    /\ db = <<>>
    /\ ledger = <<>>
    /\ buf = <<>>
    /\ pc = "req"
    /\ status = "none"
    /\ mate = FALSE
    /\ already_checked_puzzles = {}
    /\ unchecked_puzzles = <<>>
    /\ completed = {}
    /\ calls = 0
    /\ slept = TRUE
    /\ puzzle_id = ""
    /\ \E c \in ClassifyCalls :
        /\ puzzle = [fen |-> TB_PIECES, moves |-> <<>>,
                     expected_winning |-> c.expected_winning, mate |-> c.mate]
        /\ i = c.i
    /\ b = Board(puzzle.fen)
    /\ res = {}
    /\ wrong_seen = FALSE
    /\ multiple_seen = FALSE
    /\ queried = {}
    /\ rep \in AllResponses
    /\ expected_move \in Uci
    /\ out = {}
    /\ NoFiles

\* t.py:197-203 on the answer rep
Classify ==
    /\ pc = "req"
    /\ out' = req(expected_move, puzzle, i, rep)
    /\ pc' = "classified"
    /\ UNCHANGED <<db, ledger, buf, status, mate, already_checked_puzzles,
                   unchecked_puzzles, completed, calls, slept, puzzle_id>>
    /\ UNCHANGED walk_vars
    /\ UNCHANGED <<rep, expected_move>>
    /\ UNCHANGED file_vars

NextClassify == Classify

SpecClassify == InitClassify /\ [][NextClassify]_vars

----------------------------------------------------------------------------
(* The files *)

\* the theme tags "mateIn1", "mateIn2", ...: int(theme[6:]) is the index
MateInTags == <<"mateIn1", "mateIn2", "mateIn3", "mateIn4", "mateIn5">>

\* "mate" in s, "mateIn" in s and "equality" in s, for a theme tag s
has_mate(theme) == theme = "mate" \/ \E n \in DOMAIN MateInTags : MateInTags[n] = theme
has_mateIn(theme) == \E n \in DOMAIN MateInTags : MateInTags[n] = theme
has_equality(theme) == theme = "equality"

\* d[k] = v on a dict kept as the sequence of its items
DictPut(d, k, v) ==
    IF \E j \in DOMAIN d : d[j][1] = k
    THEN [j \in DOMAIN d |-> IF d[j][1] = k THEN <<k, v>> ELSE d[j]]
    ELSE Append(d, <<k, v>>)

keys(d) == {d[j][1] : j \in DOMAIN d}

RECURSIVE filtered_mate_puzzles_rows(_, _)
filtered_mate_puzzles_rows(rows, dic) ==
    IF rows = <<>> THEN dic
    ELSE LET row == Head(rows)
         IN IF \E t \in row.Themes : has_mate(t)
            THEN filtered_mate_puzzles_rows(Tail(rows), dic)
            ELSE filtered_mate_puzzles_rows(Tail(rows),
                     DictPut(dic, row.PuzzleId,
                         [fen |-> row.FEN, moves |-> row.Moves,
                          expected_winning |-> ~\E t \in row.Themes : has_equality(t),
                          mate |-> None]))

filtered_mate_puzzles(rows) == filtered_mate_puzzles_rows(rows, <<>>)

\* int(theme[6:])*2 of the mateIn tag of a row that has exactly one
mateIn_of(row) ==
    LET theme == CHOOSE t \in row.Themes : has_mateIn(t)
    IN 2 * (CHOOSE n \in DOMAIN MateInTags : MateInTags[n] = theme)

RECURSIVE only_mate_puzzles_rows(_, _)
only_mate_puzzles_rows(rows, dic) ==
    IF rows = <<>> THEN dic
    ELSE LET row == Head(rows)
         IN IF ~\E t \in row.Themes : has_mate(t)
            THEN only_mate_puzzles_rows(Tail(rows), dic)
            ELSE only_mate_puzzles_rows(Tail(rows),
                     DictPut(dic, row.PuzzleId,
                         [fen |-> row.FEN, moves |-> row.Moves,
                          expected_winning |-> ~\E t \in row.Themes : has_equality(t),
                          mate |-> Some(mateIn_of(row))]))

only_mate_puzzles(rows) == only_mate_puzzles_rows(rows, <<>>)

\* str.split(): the words of a text, in order
split(text) == SelectSeq(text, LAMBDA c : c \notin {" ", "\n"})

RECURSIVE join(_, _)
\* sep.join(words)
join(sep, words) ==
    IF Len(words) <= 1 THEN words
    ELSE <<Head(words), sep>> \o join(sep, Tail(words))

\* list_puzzles_checked keeping only the lines that carry an error
list_puzzles_checked_errors_only(lines) ==
    {split(lines[j])[1] : j \in {k \in DOMAIN lines : Len(split(lines[k])) > 1}}

\* line.split()[0] of every line of the file
list_puzzles_checked(lines) == {split(lines[j])[1] : j \in DOMAIN lines}

\* list_incorrect_puzzles taking every line for an incorrect puzzle
list_incorrect_puzzles_any(lines) ==
    {split(lines[j])[1] : j \in {k \in DOMAIN lines : Len(split(lines[k])) > 0}}

\* the ids of the lines with more than one word
list_incorrect_puzzles(lines) ==
    {split(lines[j])[1] : j \in {k \in DOMAIN lines : Len(split(lines[k])) > 1}}

\* list_unchecked_puzzles without the filter of t.py:287
list_unchecked_puzzles_all(rows, lines, mate_puzzles) ==
    IF mate_puzzles THEN only_mate_puzzles(rows) ELSE filtered_mate_puzzles(rows)

list_unchecked_puzzles(rows, lines, mate_puzzles) ==
    LET all_7p_puzzles == IF mate_puzzles THEN only_mate_puzzles(rows)
                          ELSE filtered_mate_puzzles(rows)
        already == list_puzzles_checked(lines)
    IN SelectSeq(all_7p_puzzles, LAMBDA x : x[1] \notin already)

\* puzzle_id + " " + " ".join([x.name for x in res]) + "\n";
\* a set is iterated in an order the program does not choose
written_lines(id, r) ==
    {<<id, " ">> \o join(" ", names) \o <<"\n">> : names \in SetToSeqs(r)}

\* output.write(line): the line stays in the buffer until the buffer is full
write_disk(lines, pending, line) ==
    IF Len(pending) + 1 >= BufLines THEN lines \o Append(pending, line) ELSE lines
write_buffer(pending, line) ==
    IF Len(pending) + 1 >= BufLines THEN <<>> ELSE Append(pending, line)

\* leaving the `with` block, by the end of the loop or by an exception
close_disk(lines, pending) == lines \o pending

RECURSIVE has_puzzle_fewer_8p_moves(_, _)
\* the for loop of t.py:124-127
has_puzzle_fewer_8p_moves(board, moves) ==
    IF moves = <<>> THEN FALSE
    ELSE LET pushed == push_uci(board, Head(moves))
         IN IF nb_piece(pushed) <= TB_PIECES THEN TRUE
            ELSE has_puzzle_fewer_8p_moves(pushed, Tail(moves))

\* has_puzzle_fewer_8p giving up one piece too early
has_puzzle_fewer_8p_early_reject(row) ==
    LET board == Board(row.FEN)
        nb_pieces == nb_piece(board)
    IN IF nb_pieces - Len(row.Moves) >= TB_PIECES THEN FALSE
       ELSE IF nb_pieces <= TB_PIECES THEN TRUE
       ELSE has_puzzle_fewer_8p_moves(board, row.Moves)

has_puzzle_fewer_8p(row) ==
    LET board == Board(row.FEN)
        nb_pieces == nb_piece(board)
    IN IF nb_pieces - Len(row.Moves) > TB_PIECES THEN FALSE
       ELSE IF nb_pieces <= TB_PIECES THEN TRUE
       ELSE has_puzzle_fewer_8p_moves(board, row.Moves)

\* the rows of the database: any start position around the threshold, any
\* moves
RawRows(id) ==
    [PuzzleId : {id},
     FEN : (TB_PIECES - 1)..(TB_PIECES + MaxExtra + 1),
     Moves : MovesUpTo(MaxMoves),
     Themes : {{"endgame"}}]

\* extract_puzzle_inf_7piece: puzzle.csv is rewritten with the rows kept
extract_puzzle_inf_7piece ==
    /\ pc = "extract"
    /\ db' = SelectSeq(raw, has_puzzle_fewer_8p)
    /\ pc' = "idle"
    /\ UNCHANGED <<ledger, buf, status, mate, already_checked_puzzles,
                   unchecked_puzzles, completed, calls, slept, puzzle_id>>
    /\ UNCHANGED walk_vars
    /\ UNCHANGED classify_vars
    /\ UNCHANGED file_vars

InitFilter ==
    /\ db = <<>>
    /\ ledger = <<>>
    /\ buf = <<>>
    /\ pc = "extract"
    /\ status = "none"
    /\ mate = FALSE
    /\ already_checked_puzzles = {}
    /\ unchecked_puzzles = <<>>
    /\ completed = {}
    /\ calls = 0
    /\ slept = TRUE
    /\ puzzle_id = ""
    /\ puzzle = NoPuzzle
    /\ i = 0
    /\ b = Board(0)
    /\ res = {}
    /\ wrong_seen = FALSE
    /\ multiple_seen = FALSE
    /\ queried = {}
    /\ rep = NoRep
    /\ expected_move = QuietMove
    /\ out = {}
    /\ raw \in {<<x, y>> : x \in RawRows("pA"), y \in RawRows("pB")}
    /\ l_puzzle_id = {}
    /\ file_input = <<>>
    /\ temp_file = <<>>
    /\ incorrect_puzzle_ids = <<>>

NextFilter == extract_puzzle_inf_7piece

SpecFilter == InitFilter /\ [][NextFilter]_vars

----------------------------------------------------------------------------
(* remove_puzzles, one line of the ledger at a time *)

\* t.py:134: the ledger is opened for reading, temporary_file.txt is created
\* or emptied
remove_puzzles_open(ids) ==
    /\ l_puzzle_id' = ids
    /\ file_input' = ledger
    /\ temp_file' = Some(<<>>)
    /\ pc' = "remove_puzzles"

\* remove_puzzles called on any set of ids
RemoveStart(Ids) ==
    /\ pc = "idle"
    /\ \E ids \in SUBSET Ids : remove_puzzles_open(ids)
    /\ UNCHANGED <<db, ledger, buf, status, mate, already_checked_puzzles,
                   unchecked_puzzles, completed, calls, slept, puzzle_id>>
    /\ UNCHANGED walk_vars
    /\ UNCHANGED classify_vars
    /\ UNCHANGED <<raw, incorrect_puzzle_ids>>

\* RemoveLine writing the kept lines over the ledger itself
RemoveLineInPlace ==
    /\ pc = "remove_puzzles"
    /\ file_input # <<>>
    /\ LET line == Head(file_input)
       IN temp_file' = IF split(line)[1] \notin l_puzzle_id
                       THEN Some(Append(temp_file[1], line))
                       ELSE temp_file
    /\ ledger' = temp_file'[1]
    /\ file_input' = Tail(file_input)
    /\ UNCHANGED <<db, buf, pc, status, mate, already_checked_puzzles,
                   unchecked_puzzles, completed, calls, slept, puzzle_id>>
    /\ UNCHANGED walk_vars
    /\ UNCHANGED classify_vars
    /\ UNCHANGED <<raw, l_puzzle_id, incorrect_puzzle_ids>>

\* t.py:135-138: one line is read, and written to the temporary file unless
\* its first word is one of the ids
RemoveLine ==
    /\ pc = "remove_puzzles"
    /\ file_input # <<>>
    /\ LET line == Head(file_input)
       IN temp_file' = IF split(line)[1] \notin l_puzzle_id
                       THEN Some(Append(temp_file[1], line))
                       ELSE temp_file
    /\ file_input' = Tail(file_input)
    /\ UNCHANGED driver_vars
    /\ UNCHANGED walk_vars
    /\ UNCHANGED classify_vars
    /\ UNCHANGED <<raw, l_puzzle_id, incorrect_puzzle_ids>>

\* t.py:139: both files are closed, the temporary file takes the ledger's name
RemoveReplace ==
    /\ pc = "remove_puzzles"
    /\ file_input = <<>>
    /\ ledger' = temp_file[1]
    /\ temp_file' = None
    /\ pc' = "idle"
    /\ UNCHANGED <<db, buf, status, mate, already_checked_puzzles,
                   unchecked_puzzles, completed, calls, slept, puzzle_id>>
    /\ UNCHANGED walk_vars
    /\ UNCHANGED classify_vars
    /\ UNCHANGED <<raw, l_puzzle_id, file_input, incorrect_puzzle_ids>>

\* the process dies during the rewrite: the temporary file stays, with the
\* lines that had left its buffer
RemoveKill ==
    /\ pc = "remove_puzzles"
    /\ \E k \in 0..Len(temp_file[1]) : temp_file' = Some(SubSeq(temp_file[1], 1, k))
    /\ file_input' = <<>>
    /\ pc' = "idle"
    /\ UNCHANGED <<db, ledger, buf, status, mate, already_checked_puzzles,
                   unchecked_puzzles, completed, calls, slept, puzzle_id>>
    /\ UNCHANGED walk_vars
    /\ UNCHANGED classify_vars
    /\ UNCHANGED <<raw, l_puzzle_id, incorrect_puzzle_ids>>

\* the ids of the ledgers remove_puzzles is run on
PruneIds == {"pA", "pB", "pC"}

\* the ledgers remove_puzzles is run on: one line per id, in any order, with
\* any finding written in any order
PruneLedgers ==
    {l \in [1..Cardinality(PruneIds) -> UNION {written_lines(id, r) :
                                            id \in PruneIds, r \in SUBSET Error}] :
        \A j, k \in DOMAIN l : j # k => split(l[j])[1] # split(l[k])[1]}

InitPrune ==
    /\ db = <<>>
    /\ ledger \in PruneLedgers
    /\ buf = <<>>
    /\ pc = "idle"
    /\ status = "none"
    /\ mate = FALSE
    /\ already_checked_puzzles = {}
    /\ unchecked_puzzles = <<>>
    /\ completed = {}
    /\ calls = 0
    /\ slept = TRUE
    /\ puzzle_id = ""
    /\ puzzle = NoPuzzle
    /\ i = 0
    /\ b = Board(0)
    /\ res = {}
    /\ wrong_seen = FALSE
    /\ multiple_seen = FALSE
    /\ queried = {}
    /\ rep = NoRep
    /\ expected_move = QuietMove
    /\ out = {}
    /\ NoFiles

NextPrune == RemoveStart(PruneIds) \/ RemoveLine \/ RemoveReplace \/ RemoveKill

SpecPrune == InitPrune /\ [][NextPrune]_vars

----------------------------------------------------------------------------
(* check(): the driver *)

\* puzzle.csv as the filter left it: well-formed rows, each id once
Db ==
    << [PuzzleId |-> "pWin", FEN |-> TB_PIECES,
        Moves |-> <<QuietMove, QuietMove, QuietMove, QuietMove>>,
        Themes |-> {"endgame"}],
       [PuzzleId |-> "pMate", FEN |-> TB_PIECES - 1,
        Moves |-> <<QuietMove, QuietMove>>,
        Themes |-> {"mate", "mateIn1"}],
       [PuzzleId |-> "pDraw", FEN |-> TB_PIECES + 1,
        Moves |-> <<CaptureMove, QuietMove>>,
        Themes |-> {"equality", "endgame"}],
       [PuzzleId |-> "pLate", FEN |-> TB_PIECES + 1,
        Moves |-> <<QuietMove, CaptureMove>>,
        Themes |-> {"endgame"}] >>

\* the answers the oracle gives during a run
DriverResponses == Responses({None, Some(1)}, {None, Some(0)}, BOOLEAN)

\* the locals of check_puzzle when no puzzle is being checked
NoWalk ==
    /\ puzzle' = NoPuzzle
    /\ i' = 0
    /\ b' = Board(0)
    /\ res' = {}
    /\ wrong_seen' = FALSE
    /\ multiple_seen' = FALSE
    /\ queried' = {}

\* t.py:169-171: `check` or `exp_check_mate` is started
Start(m) ==
    /\ pc = "idle"
    /\ mate' = m
    /\ already_checked_puzzles' = list_puzzles_checked(ledger)
    /\ unchecked_puzzles' = list_unchecked_puzzles(db, ledger, m)
    /\ completed' = {}
    /\ calls' = 0
    /\ slept' = TRUE
    /\ status' = "running"
    /\ pc' = "loop"
    /\ puzzle_id' = ""
    /\ NoWalk
    /\ UNCHANGED <<db, ledger, buf>>
    /\ UNCHANGED classify_vars
    /\ UNCHANGED file_vars

\* t.py:172-174: the next puzzle of the list enters check_puzzle
NextPuzzle ==
    /\ pc = "loop"
    /\ unchecked_puzzles # <<>>
    /\ puzzle_id' = Head(unchecked_puzzles)[1]
    /\ puzzle' = Head(unchecked_puzzles)[2]
    /\ unchecked_puzzles' = Tail(unchecked_puzzles)
    /\ i' = 0
    /\ b' = Board(puzzle'.fen)
    /\ res' = {}
    /\ wrong_seen' = FALSE
    /\ multiple_seen' = FALSE
    /\ queried' = {}
    /\ pc' = "check_puzzle"
    /\ UNCHANGED <<db, ledger, buf, status, mate, already_checked_puzzles,
                   completed, calls, slept>>
    /\ UNCHANGED classify_vars
    /\ UNCHANGED file_vars

\* OracleError with a handler that records what was found so far
OracleErrorKeepsPartial ==
    /\ pc = "check_puzzle"
    /\ i < Len(puzzle.moves)
    /\ is_verification_point(i, b)
    /\ calls' = calls + 1
    /\ slept' = FALSE
    /\ \E line \in written_lines(puzzle_id, res) :
        ledger' = close_disk(ledger, Append(buf, line))
    /\ buf' = <<>>
    /\ status' = "oracle_error"
    /\ pc' = "idle"
    /\ UNCHANGED <<db, mate, already_checked_puzzles, unchecked_puzzles,
                   completed, puzzle_id>>
    /\ queried' = queried \cup {<<i, b>>}
    /\ UNCHANGED <<puzzle, i, b, res, wrong_seen, multiple_seen>>
    /\ UNCHANGED classify_vars
    /\ UNCHANGED file_vars

\* t.py:194-195 raises: nothing catches it, the `with` block closes the file
OracleError ==
    /\ pc = "check_puzzle"
    /\ i < Len(puzzle.moves)
    /\ is_verification_point(i, b)
    /\ calls' = calls + 1
    /\ slept' = FALSE
    /\ ledger' = close_disk(ledger, buf)
    /\ buf' = <<>>
    /\ status' = "oracle_error"
    /\ pc' = "idle"
    /\ UNCHANGED <<db, mate, already_checked_puzzles, unchecked_puzzles,
                   completed, puzzle_id>>
    /\ queried' = queried \cup {<<i, b>>}
    /\ UNCHANGED <<puzzle, i, b, res, wrong_seen, multiple_seen>>
    /\ UNCHANGED classify_vars
    /\ UNCHANGED file_vars

\* t.py:174-178: check_puzzle returns, the line is written, the run sleeps
WriteResult ==
    /\ pc = "check_puzzle"
    /\ i = Len(puzzle.moves)
    /\ \E line \in written_lines(puzzle_id, res) :
        /\ ledger' = write_disk(ledger, buf, line)
        /\ buf' = write_buffer(buf, line)
    /\ completed' = completed \cup {puzzle_id}
    /\ slept' = TRUE
    /\ pc' = "loop"
    /\ UNCHANGED <<db, status, mate, already_checked_puzzles, unchecked_puzzles,
                   calls, puzzle_id>>
    /\ UNCHANGED walk_vars
    /\ UNCHANGED classify_vars
    /\ UNCHANGED file_vars

\* the loop of t.py:172 ends and the `with` block closes the file
Finish ==
    /\ pc = "loop"
    /\ unchecked_puzzles = <<>>
    /\ ledger' = close_disk(ledger, buf)
    /\ buf' = <<>>
    /\ status' = "ok"
    /\ pc' = "idle"
    /\ NoWalk
    /\ UNCHANGED <<db, mate, already_checked_puzzles, unchecked_puzzles,
                   completed, calls, slept, puzzle_id>>
    /\ UNCHANGED classify_vars
    /\ UNCHANGED file_vars

\* KeyboardInterrupt: an exception like any other, the file is closed
Interrupt ==
    /\ pc \in {"loop", "check_puzzle"}
    /\ ledger' = close_disk(ledger, buf)
    /\ buf' = <<>>
    /\ status' = "interrupted"
    /\ pc' = "idle"
    /\ NoWalk
    /\ UNCHANGED <<db, mate, already_checked_puzzles, unchecked_puzzles,
                   completed, calls, slept, puzzle_id>>
    /\ UNCHANGED classify_vars
    /\ UNCHANGED file_vars

\* the process is killed or the machine stops: the buffer is never written
Kill ==
    /\ pc \in {"loop", "check_puzzle"}
    /\ buf' = <<>>
    /\ status' = "killed"
    /\ pc' = "idle"
    /\ NoWalk
    /\ UNCHANGED <<db, ledger, mate, already_checked_puzzles, unchecked_puzzles,
                   completed, calls, slept, puzzle_id>>
    /\ UNCHANGED classify_vars
    /\ UNCHANGED file_vars

Init ==
    /\ db = Db
    /\ ledger = <<>>
    /\ buf = <<>>
    /\ pc = "idle"
    /\ status = "none"
    /\ mate = FALSE
    /\ already_checked_puzzles = {}
    /\ unchecked_puzzles = <<>>
    /\ completed = {}
    /\ calls = 0
    /\ slept = TRUE
    /\ puzzle_id = ""
    /\ puzzle = NoPuzzle
    /\ i = 0
    /\ b = Board(0)
    /\ res = {}
    /\ wrong_seen = FALSE
    /\ multiple_seen = FALSE
    /\ queried = {}
    /\ rep = NoRep
    /\ expected_move = QuietMove
    /\ out = {}
    /\ NoFiles

Next ==
    \/ \E m \in BOOLEAN : Start(m)
    \/ NextPuzzle
    \/ VerifyMove(DriverResponses)
    \/ SkipMove
    \/ OracleError
    \/ WriteResult
    \/ Finish
    \/ Interrupt
    \/ Kill

Spec == Init /\ [][Next]_vars

----------------------------------------------------------------------------
(* The commands of main, run one after the other on one candidate *)

\* Puzzles that are in the ledger and not among filtered_mate_puzzles()
list_legacy_puzzle(rows, lines) ==
    {x \in list_puzzles_checked(lines) : x \notin keys(filtered_mate_puzzles(rows))}

\* the `clean` command up to the opening of the files of remove_puzzles
remove_puzzles_no_longer_db ==
    /\ pc = "idle"
    /\ remove_puzzles_open(list_legacy_puzzle(db, ledger))
    /\ UNCHANGED <<db, ledger, buf, status, mate, already_checked_puzzles,
                   unchecked_puzzles, completed, calls, slept, puzzle_id>>
    /\ UNCHANGED walk_vars
    /\ UNCHANGED classify_vars
    /\ UNCHANGED <<raw, incorrect_puzzle_ids>>

\* the `export` command up to open("incorrect_puzzle_ids.txt", "w"), which
\* empties the file
incorrect_puzzles_open ==
    /\ pc = "idle"
    /\ incorrect_puzzle_ids' = <<>>
    /\ pc' = "export"
    /\ UNCHANGED <<db, ledger, buf, status, mate, already_checked_puzzles,
                   unchecked_puzzles, completed, calls, slept, puzzle_id>>
    /\ UNCHANGED walk_vars
    /\ UNCHANGED classify_vars
    /\ UNCHANGED <<raw, l_puzzle_id, file_input, temp_file>>

\* t.py:422-423: one line per id of the set, in the order the set gives them
incorrect_puzzles_write ==
    /\ pc = "export"
    /\ \E puzzles \in SetToSeqs(list_incorrect_puzzles(ledger)) :
        incorrect_puzzle_ids' = [j \in DOMAIN puzzles |-> <<puzzles[j], "\n">>]
    /\ pc' = "idle"
    /\ UNCHANGED <<db, ledger, buf, status, mate, already_checked_puzzles,
                   unchecked_puzzles, completed, calls, slept, puzzle_id>>
    /\ UNCHANGED walk_vars
    /\ UNCHANGED classify_vars
    /\ UNCHANGED <<raw, l_puzzle_id, file_input, temp_file>>

\* a candidate has at most this many moves
OneMoves == 2

\* the theme tags of a row: a mate puzzle has "mate" and one mateIn tag
CommandThemes ==
    LET other == {{"endgame"}, {"equality", "endgame"}}
    IN other \cup {t \cup {"mate", MateInTags[n]} : t \in other, n \in 1..MaxMateN}

\* the rows the filter leaves in puzzle.csv
CommandRows ==
    {row \in [PuzzleId : {"pOne"},
              FEN : TB_PIECES..(TB_PIECES + 1),
              Moves : MovesUpTo(OneMoves),
              Themes : CommandThemes] : has_puzzle_fewer_8p(row)}

\* the answers the oracle gives while the commands are run
CommandResponses == Responses({None, Some(1)}, {None}, {FALSE})

InitCommands ==
    /\ db \in {<<row>> : row \in CommandRows}
    /\ ledger \in {<<>>, << <<"pGone", " ", "Wrong", "\n">> >>}
    /\ buf = <<>>
    /\ pc = "idle"
    /\ status = "none"
    /\ mate = FALSE
    /\ already_checked_puzzles = {}
    /\ unchecked_puzzles = <<>>
    /\ completed = {}
    /\ calls = 0
    /\ slept = TRUE
    /\ puzzle_id = ""
    /\ puzzle = NoPuzzle
    /\ i = 0
    /\ b = Board(0)
    /\ res = {}
    /\ wrong_seen = FALSE
    /\ multiple_seen = FALSE
    /\ queried = {}
    /\ rep = NoRep
    /\ expected_move = QuietMove
    /\ out = {}
    /\ NoFiles

NextCommands ==
    \/ \E m \in BOOLEAN : Start(m)
    \/ NextPuzzle
    \/ VerifyMove(CommandResponses)
    \/ SkipMove
    \/ OracleError
    \/ WriteResult
    \/ Finish
    \/ Interrupt
    \/ Kill
    \/ remove_puzzles_no_longer_db
    \/ RemoveLine
    \/ RemoveReplace
    \/ RemoveKill
    \/ incorrect_puzzles_open
    \/ incorrect_puzzles_write

SpecCommands == InitCommands /\ [][NextCommands]_vars

----------------------------------------------------------------------------
(* Properties *)

IsWinPuzzle(p) == p.mate = None /\ p.expected_winning
IsMatePuzzle(p) == p.mate # None

\* the candidates of a run in the given mode
Candidates(m) ==
    keys(IF m THEN only_mate_puzzles(db) ELSE filtered_mate_puzzles(db))

Running == pc \in {"loop", "check_puzzle"}

\* C1: the finding check_puzzle returns for a Win puzzle contains Wrong
\* exactly when, at some verified position, the root category was not win
\* or the reply playing the expected move was not a loss.
C1_WinWrong ==
    (pc = "returned" /\ IsWinPuzzle(puzzle)) => (Wrong \in res <=> wrong_seen)

C1_Witness ==
    /\ pc = "returned"
    /\ IsWinPuzzle(puzzle)
    /\ calls = 2
    /\ res = {Wrong}

\* C2: the finding check_puzzle returns for a Win puzzle contains Multiple
\* exactly when, at some verified position, a reply other than the expected
\* move was a loss.
C2_WinMultiple ==
    (pc = "returned" /\ IsWinPuzzle(puzzle)) => (Multiple \in res <=> multiple_seen)

C2_Witness ==
    /\ pc = "returned"
    /\ IsWinPuzzle(puzzle)
    /\ calls = 2
    /\ res = {Multiple}

\* C3: however a run ends, every puzzle whose verification completed during
\* it has its line in the ledger file afterwards.
C3_CompletedAreOnDisk ==
    pc = "idle" => completed \subseteq list_puzzles_checked(ledger)

\* C4: an oracle failure on one puzzle does not end the run: the run is
\* still going on after it.
C4_RunSurvivesOracleError == status = "oracle_error" => Running

\* C5: after an oracle failure no line of the ledger, written or pending,
\* names the puzzle that was being verified, whatever was found at its
\* earlier positions; the next run in the same mode lists it as unchecked;
\* and a puzzle always enters check_puzzle at its first move with an empty
\* finding.
C5_FailedPuzzleStaysUnchecked ==
    /\ [](status = "oracle_error" =>
            /\ puzzle_id \notin list_puzzles_checked(ledger \o buf)
            /\ puzzle_id \in keys(list_unchecked_puzzles(db, ledger, mate)))
    /\ [][pc' = "check_puzzle" /\ pc # "check_puzzle" =>
            /\ puzzle_id' = Head(unchecked_puzzles)[1]
            /\ i' = 0
            /\ res' = {}
            /\ b' = Board(puzzle'.fen)]_vars

C5_Witness ==
    /\ status = "oracle_error"
    /\ puzzle_id = "pWin"
    /\ i = 3
    /\ res = {Wrong, Multiple}
    /\ completed = {}

\* C6: the puzzles a run verifies are exactly the candidates of its mode
\* whose id the ledger did not hold when the run started; a run that finds
\* every candidate in the ledger makes no oracle call and writes no line.
C6_VerifiesExactlyUnchecked ==
    status # "none" =>
        LET attempted == completed \cup ({puzzle_id} \ {""})
            todo == Candidates(mate) \ already_checked_puzzles
        IN /\ attempted \cup keys(unchecked_puzzles) = todo
           /\ attempted \cap keys(unchecked_puzzles) = {}
           /\ status = "ok" => completed = todo
           /\ todo = {} =>
                /\ calls = 0
                /\ buf = <<>>
                /\ list_puzzles_checked(ledger) = already_checked_puzzles
                /\ Len(ledger) = Cardinality(already_checked_puzzles)

C6_Witness ==
    /\ status = "ok"
    /\ Candidates(mate) # {}
    /\ Candidates(mate) \subseteq already_checked_puzzles
    /\ calls = 0

\* C7: whenever the run makes an oracle call that is not its first, a sleep
\* has ended since the call before it.
C7_DelayBetweenCalls == [][(calls' = calls + 1 /\ calls > 0) => slept]_vars

\* C8: no two lines of the ledger carry the same id; the ids read back from
\* the file and the buffer of a run are those read when it started and those
\* it wrote, one line each.
C8_OneLinePerId ==
    /\ \A j, k \in DOMAIN ledger : j # k => ledger[j][1] # ledger[k][1]
    /\ Running =>
        LET all == ledger \o buf
        IN /\ list_puzzles_checked(all) = already_checked_puzzles \cup completed
           /\ Len(all) = Cardinality(already_checked_puzzles \cup completed)

C8_Witness ==
    /\ pc = "idle"
    /\ Len(ledger) = Len(Db)
    /\ status = "killed"

\* C9: one classification of a mate puzzle at move index i contains Wrong
\* exactly when the root category is not win, or the root mate distance is
\* known and is not mate - i, or the reply playing the expected move is not
\* checkmate and not a loss; without a root mate distance, Wrong comes from
\* the other two only.
C9_MateWrong ==
    (pc = "classified" /\ IsMatePuzzle(puzzle)) =>
        /\ Wrong \in out <=> MateShowsWrong(rep, expected_move, puzzle.mate[1] - i)
        /\ (rep.dtm = None /\ Wrong \in out) =>
             \/ rep.category # "win"
             \/ \E x \in ReplyOf(rep, expected_move) :
                    ~x.checkmate /\ x.category # "loss"

C9_Witness ==
    /\ pc = "classified"
    /\ IsMatePuzzle(puzzle)
    /\ i = 3
    /\ rep.category = "win"
    /\ rep.dtm = None
    /\ \E x \in ReplyOf(rep, expected_move) : ~x.checkmate /\ x.category = "loss"
    /\ out = {}

\* C10: one classification of a mate puzzle at move index i contains
\* Multiple exactly when a reply other than the expected move is not
\* checkmate, has a known mate distance, is a loss and its distance negated
\* is mate - i - 1.
C10_MateMultiple ==
    (pc = "classified" /\ IsMatePuzzle(puzzle)) =>
        /\ Multiple \in out <=>
             MateShowsMultiple(rep, expected_move, puzzle.mate[1] - i)
        /\ (\A x \in ReplyNotOf(rep, expected_move) : x.checkmate \/ x.dtm = None)
             => Multiple \notin out

C10_Witness ==
    /\ pc = "classified"
    /\ IsMatePuzzle(puzzle)
    /\ i = 1
    /\ puzzle.mate = Some(4)
    /\ out = {Multiple}

IsDrawPuzzle(p) == p.mate = None /\ ~p.expected_winning

\* C11: the finding check_puzzle returns for a Draw puzzle contains Wrong
\* exactly when, at some verified position, the root or the reply playing
\* the expected move was not one of draw, cursed-win, blessed-loss, and
\* Multiple exactly when, at some verified position, a reply other than the
\* expected move was one of them.
C11_DrawShape ==
    (pc = "returned" /\ IsDrawPuzzle(puzzle)) =>
        /\ Wrong \in res <=> wrong_seen
        /\ Multiple \in res <=> multiple_seen

C11_Witness ==
    /\ pc = "returned"
    /\ IsDrawPuzzle(puzzle)
    /\ calls = 2
    /\ res = {Wrong, Multiple}

\* the pieces of the position reached after the first n moves of p: one
\* fewer per capture, counted on the move list
PiecesBefore(p, n) ==
    p.fen - Cardinality({k \in 1..n : p.moves[k] = CaptureMove})

\* the odd move indices of p whose position before the move has at most
\* seven pieces
VerificationPoints(p) ==
    {n \in 0..(Len(p.moves) - 1) :
        n % 2 = 1 /\ PiecesBefore(p, n) <= TB_PIECES}

\* the indices check_puzzle has gone through: those below i, and i itself
\* when the lookup at i raised
Visited == {n \in 0..(Len(puzzle.moves) - 1) : n < i \/ (n = i /\ pc = "raised")}

Walking == pc \in {"check_puzzle", "returned", "raised"}

\* C15: while check_puzzle runs, the lookups made so far are exactly those
\* of the odd indices gone through whose position before moves[i] has at
\* most 7 pieces, each on the position reached after moves[0..i-1]; no
\* lookup is made at an even index.
C15_QueriedExactly ==
    Walking =>
        /\ queried = {<<n, Board(PiecesBefore(puzzle, n))>> :
                        n \in VerificationPoints(puzzle) \cap Visited}
        /\ \A q \in queried : q[1] % 2 = 1

C15_Witness ==
    /\ pc = "returned"
    /\ puzzle.fen = TB_PIECES + 1
    /\ puzzle.moves = <<QuietMove, QuietMove, CaptureMove, QuietMove>>
    /\ queried = {<<3, Board(TB_PIECES)>>}

\* C16: every iteration of check_puzzle that does not raise plays the next
\* move whatever was found and keeps what was found before; when
\* check_puzzle returns, every move has been played, every verification
\* point has been looked up, and the result holds Wrong (Multiple) exactly
\* when some verification point showed it.
C16_AllMovesAllFindings ==
    [][pc = "check_puzzle" =>
        /\ res \subseteq res'
        /\ pc' = "check_puzzle" =>
            /\ i' = i + 1
            /\ nb_piece(b') = PiecesBefore(puzzle, i')
        /\ pc' = "returned" =>
            /\ i' = Len(puzzle.moves)
            /\ nb_piece(b') = PiecesBefore(puzzle, Len(puzzle.moves))
            /\ {q[1] : q \in queried'} = VerificationPoints(puzzle)
            /\ Wrong \in res' <=> wrong_seen'
            /\ Multiple \in res' <=> multiple_seen']_vars

C16_Witness ==
    /\ pc = "returned"
    /\ Len(puzzle.moves) = 4
    /\ CaptureMove \in {puzzle.moves[k] : k \in 1..4}
    /\ Cardinality(queried) = 2
    /\ res = {Wrong, Multiple}

\* the odd move indices of p
OddIndices(p) == {n \in 0..(Len(p.moves) - 1) : n % 2 = 1}

\* the positions of p, numbered by the moves played, with at most seven pieces
LowPositions(p) == {k \in 0..Len(p.moves) : PiecesBefore(p, k) <= TB_PIECES}

\* C20: when check_puzzle returns, every odd index after a looked-up index
\* was looked up too, and the number of lookups is the number of odd
\* indices at or after the first position with at most 7 pieces.
C20_SuffixOfOddIndices ==
    pc = "returned" =>
        LET looked == {q[1] : q \in queried}
        IN /\ \A n \in looked : \A m \in OddIndices(puzzle) :
                m > n => m \in looked
           /\ calls = Cardinality({n \in OddIndices(puzzle) :
                                    \E k \in LowPositions(puzzle) : k <= n})

C20_Witness ==
    /\ pc = "returned"
    /\ puzzle.fen = TB_PIECES + 2
    /\ Len(puzzle.moves) = 4
    /\ {q[1] : q \in queried} = {3}
    /\ calls = 1

\* some prefix of the moves of the row, the empty one included, played from
\* its start position leaves at most seven pieces; captures are counted on
\* the move list
PrefixReaches(row) ==
    \E k \in 0..Len(row.Moves) :
        row.FEN - Cardinality({j \in 1..k : row.Moves[j] = CaptureMove})
            <= TB_PIECES

\* the early rejection of t.py:120
EarlyRejected(row) == row.FEN - Len(row.Moves) > TB_PIECES

\* C12: once the database is filtered, puzzle.csv holds, in order, exactly
\* the rows some prefix of whose moves reaches at most 7 pieces, and no row
\* with initialCount - moveCount > 7 is such a row.
C12_FilterIsPrefixRule ==
    pc = "idle" =>
        /\ db = SelectSeq(raw, PrefixReaches)
        /\ \A j \in DOMAIN raw : EarlyRejected(raw[j]) => ~PrefixReaches(raw[j])

C12_Witness ==
    /\ pc = "idle"
    /\ Len(db) = 1
    /\ db[1].PuzzleId = "pB"
    /\ db[1].FEN = TB_PIECES + 2
    /\ db[1].Moves = <<CaptureMove, QuietMove, CaptureMove>>
    /\ EarlyRejected(raw[1])

\* the lines whose id is not one of ids, as they are and in their order
Kept(lines, ids) == SelectSeq(lines, LAMBDA line : split(line)[1] \notin ids)

\* C13: no step of remove_puzzles, its abrupt end included, leaves the ledger
\* file with anything but what it held before the step or the lines of it
\* whose id is not in ids, in their order; the step that ends remove_puzzles
\* normally leaves the latter.
C13_PruneIsAtomic ==
    [][(pc = "remove_puzzles" \/ pc' = "remove_puzzles") =>
        /\ ledger' = ledger \/ ledger' = Kept(ledger, l_puzzle_id)
        /\ (pc' = "idle" /\ temp_file' = None) =>
                ledger' = Kept(ledger, l_puzzle_id)]_vars

C13_Witness ==
    /\ pc = "idle"
    /\ temp_file = None
    /\ l_puzzle_id = {"pB"}
    /\ ledger = << <<"pC", " ", "\n">>, <<"pA", " ", "Multiple", " ", "Wrong", "\n">> >>

\* the ids of the lines that carry an error name, read off the words
ErrorIds(lines) ==
    {lines[j][1] : j \in {k \in DOMAIN lines :
                            \E w \in DOMAIN lines[k] : lines[k][w] \in Error}}

\* the line of puzzle_id has just been written
JustWritten == pc = "loop" /\ puzzle_id # ""

\* C14: once the line of a puzzle is appended, list_puzzles_checked on the
\* ledger with that line holds its id whatever the finding, and
\* list_incorrect_puzzles holds it exactly when the finding is not empty;
\* the export writes one line per id of a ledger line carrying an error,
\* and no other.
C14_LedgerRoundTrip ==
    /\ [](JustWritten =>
            /\ puzzle_id \in list_puzzles_checked(ledger \o buf)
            /\ puzzle_id \in list_incorrect_puzzles(ledger \o buf) <=> res # {})
    /\ [][(pc = "export" /\ pc' = "idle") =>
            /\ {incorrect_puzzle_ids'[j][1] : j \in DOMAIN incorrect_puzzle_ids'}
                    = ErrorIds(ledger)
            /\ Len(incorrect_puzzle_ids') = Cardinality(ErrorIds(ledger))]_vars

C14_Witness ==
    /\ pc = "idle"
    /\ status = "ok"
    /\ completed = {"pOne"}
    /\ incorrect_puzzle_ids = << <<"pGone", "\n">>, <<"pOne", "\n">> >>

\* the ids of the rows of puzzle.csv, whatever their themes
RowIds == {db[k].PuzzleId : k \in DOMAIN db}

\* the step that ends remove_puzzles normally
RemoveEnds == pc = "remove_puzzles" /\ pc' = "idle" /\ temp_file' = None

\* C17: when clean ends, every line of the ledger whose id is the id of a
\* row of puzzle.csv, whatever the themes of the row, is still in the
\* ledger, unchanged.
C17_CleanKeepsCandidates ==
    [][RemoveEnds =>
        \A j \in DOMAIN ledger :
            ledger[j][1] \in RowIds =>
                \E k \in DOMAIN ledger' : ledger'[k] = ledger[j]]_vars

\* the goal the themes of a row give: MateIn with twice the number of its
\* mateIn tag when "mate" is a theme, else Draw when "equality" is one, else
\* Win
Goal(row) ==
    IF "mate" \in row.Themes
    THEN [rule |-> "MateIn",
          plies |-> 2 * (CHOOSE n \in DOMAIN MateInTags : MateInTags[n] \in row.Themes)]
    ELSE IF "equality" \in row.Themes THEN [rule |-> "Draw", plies |-> 0]
    ELSE [rule |-> "Win", plies |-> 0]

\* C18: every row of puzzle.csv is a candidate of exactly one of the two
\* modes; while it is verified, the mode is the mate mode and puzzle.mate
\* is 2N exactly when "mate" is one of its themes, equality or not, and
\* otherwise expected_winning is false exactly when "equality" is one; the
\* finding written is the one of the rules of that goal.
C18_GoalFromThemes ==
    /\ \A k \in DOMAIN db :
        (db[k].PuzzleId \in Candidates(TRUE)) # (db[k].PuzzleId \in Candidates(FALSE))
    /\ (Running /\ puzzle_id # "") =>
        LET g == Goal(db[1])
        IN /\ mate = (g.rule = "MateIn")
           /\ puzzle.mate = IF g.rule = "MateIn" THEN Some(g.plies) ELSE None
           /\ g.rule # "MateIn" => puzzle.expected_winning = (g.rule = "Win")
           /\ JustWritten =>
                /\ Wrong \in res <=> wrong_seen
                /\ Multiple \in res <=> multiple_seen

C18_Witness ==
    /\ JustWritten
    /\ db[1].Themes = {"mate", "mateIn2", "equality", "endgame"}
    /\ puzzle.mate = Some(4)
    /\ ~puzzle.expected_winning
    /\ calls = 1
    /\ res = {Wrong}

\* C19: a candidate none of whose odd indices has a position of at most 7
\* pieces before its move goes through check_puzzle without any lookup,
\* with the empty finding, and the line written for it is its id alone:
\* checked, and not incorrect.
C19_NoPointNoCall ==
    (Running /\ puzzle_id # "" /\ VerificationPoints(puzzle) = {}) =>
        /\ calls = 0
        /\ queried = {}
        /\ res = {}
        /\ JustWritten =>
            LET file == ledger \o buf
            IN /\ file[Len(file)] = <<puzzle_id, " ", "\n">>
               /\ puzzle_id \in list_puzzles_checked(file)
               /\ puzzle_id \notin list_incorrect_puzzles(file)

C19_Witness ==
    /\ JustWritten
    /\ puzzle.fen = TB_PIECES + 1
    /\ puzzle.moves = <<QuietMove, CaptureMove>>
    /\ calls = 0
    /\ ledger \o buf = << <<"pGone", " ", "Wrong", "\n">>, <<"pOne", " ", "\n">> >>

\* the answer r with the mate distance of the reply playing m set to d, and
\* nothing else changed
WithExpectedDtm(r, m, d) ==
    [r EXCEPT !.moves = [k \in DOMAIN r.moves |->
                            IF r.moves[k].uci = m
                            THEN [r.moves[k] EXCEPT !.dtm = d]
                            ELSE r.moves[k]]]

\* C21: the classification of a mate puzzle on an answer is the
\* classification on every answer that differs from it only in the mate
\* distance of the reply playing the expected move.
C21_ExpectedDtmIgnored ==
    (pc = "classified" /\ IsMatePuzzle(puzzle)) =>
        \A d \in ReplyDtms :
            req(expected_move, puzzle, i, WithExpectedDtm(rep, expected_move, d)) = out

C21_Witness ==
    /\ pc = "classified"
    /\ puzzle.mate = Some(4)
    /\ i = 1
    /\ rep.category = "win"
    /\ rep.dtm = Some(3)
    /\ \E x \in ReplyOf(rep, expected_move) :
            ~x.checkmate /\ x.category = "loss" /\ x.dtm = Some(0)
    /\ out = {}

============================================================================
